---- MODULE Spec2Model ----
(***************************************************************************)
(* DeskJarvis, src-tauri/src/main.rs: the supervisor of the persistent     *)
(* Python worker (AppState.server behind a tokio Mutex), the persistent    *)
(* request path (execute_via_server), the one-shot fallback                *)
(* (execute_oneshot), the background restart task and the eager startup    *)
(* launch of main().                                                       *)
(*                                                                         *)
(* A line of worker output is a sequence of characters over a small        *)
(* alphabet.  One member character stands for one `"key":value` pair of a  *)
(* JSON object (the separating commas are not written):                    *)
(*   "{" "}"   braces            "ws" a blank      "nl" a line break       *)
(*   "x"       a character that is not JSON                                *)
(*   "1"       a JSON scalar                                               *)
(*   "t_<s>"   "type":"<s>"      "t_num"  "type":5  (type is no string)    *)
(*   "p1" "p2" some payload member, e.g. "pct":10                          *)
(*   "R1" "R2" the four TaskResult fields, with two different contents     *)
(*   "d"       the key "data":, followed by a JSON value                   *)
(***************************************************************************)
EXTENDS Naturals, Sequences, FiniteSets

\* ---------------------------------------------------------------- bounds

\* Invocations of execute_task over a run.
MaxCalls == 2
\* Lines execute_via_server reads during one exchange ...
MaxLines == 2
\* ... and in the runs that look at the order of the events.
MaxOrderLines == 3
\* Lines a starting worker, or a one-shot process, writes.
MaxOutput == 2
\* Lines a starting worker writes, where wait_for_ready is applied on its own.
MaxReadyLines == 3
\* Characters of a text, where extract_json_from_output is applied on its own.
MaxText == 7
\* Lines a one-shot process writes, where execute_oneshot is applied on its own.
MaxFallbackLines == 3

\* ------------------------------------------------------- JSON, by character

TypeChars == {"t_ready", "t_pong", "t_shutdown_ack", "t_result", "t_error",
              "t_progress", "t_num"}

PayChars == {"p1", "p2"}

ResultChars == {"R1", "R2"}

\* char::is_whitespace, as str::trim and serde_json skip it
IsWs(ch) == ch \in {"ws", "nl"}

\* A parsed serde_json::Value.  kind "scalar" | "object"; type holds the
\* member "type" ("" when absent); pay a payload member; tr the TaskResult
\* fields ("none", "R1", "R2", or "dup" when given twice); data the member
\* "data": "absent" | "scalar" | "object", and dtr the tr of that object.
NullValue ==
  [kind |-> "scalar", type |-> "", pay |-> "", tr |-> "none",
   data |-> "absent", dtr |-> "none"]

EmptyObject == [NullValue EXCEPT !.kind = "object"]

RECURSIVE SkipWs(_, _)
SkipWs(s, i) ==
  IF i <= Len(s) /\ IsWs(s[i]) THEN SkipWs(s, i + 1) ELSE i

ParseFail == [ok |-> FALSE, next |-> 0, val |-> NullValue]

RECURSIVE ParseValue(_, _)
RECURSIVE ParseMembers(_, _, _)

\* One JSON value starting at s[i].
ParseValue(s, i) ==
  LET j == SkipWs(s, i) IN
  IF j > Len(s) THEN ParseFail
  ELSE IF s[j] = "1" THEN [ok |-> TRUE, next |-> j + 1, val |-> NullValue]
  ELSE IF s[j] = "{" THEN ParseMembers(s, j + 1, EmptyObject)
  ELSE ParseFail

ParseMembers(s, i, acc) ==
  LET j == SkipWs(s, i) IN
  IF j > Len(s) THEN ParseFail
  ELSE IF s[j] = "}" THEN [ok |-> TRUE, next |-> j + 1, val |-> acc]
  ELSE IF s[j] \in TypeChars
    THEN ParseMembers(s, j + 1, [acc EXCEPT !.type = s[j]])
  ELSE IF s[j] \in PayChars
    THEN ParseMembers(s, j + 1, [acc EXCEPT !.pay = s[j]])
  ELSE IF s[j] \in ResultChars
    THEN ParseMembers(s, j + 1,
           [acc EXCEPT !.tr = IF acc.tr = "none" THEN s[j] ELSE "dup"])
  ELSE IF s[j] = "d"
    THEN LET v == ParseValue(s, j + 1) IN
         IF v.ok
           THEN ParseMembers(s, v.next,
                  [acc EXCEPT !.data = v.val.kind, !.dtr = v.val.tr])
           ELSE ParseFail
  ELSE ParseFail

\* serde_json::from_str::<serde_json::Value>: one value and nothing after it
FromStrValue(s) ==
  LET v == ParseValue(s, 1) IN
  IF v.ok /\ SkipWs(s, v.next) > Len(s)
    THEN [ok |-> TRUE, val |-> v.val]
    ELSE [ok |-> FALSE, val |-> NullValue]

\* event.get("type").and_then(|v| v.as_str()).unwrap_or("")
EventType(v) ==
  IF v.kind = "object" /\ v.type \in TypeChars \ {"t_num"} THEN v.type ELSE ""

\* serde_json::from_str::<TaskResult>: an object carrying the four fields
\* once; members it does not know are ignored.
FromStrTaskResult(s) ==
  LET v == FromStrValue(s) IN
  IF v.ok /\ v.val.kind = "object" /\ v.val.tr \in ResultChars
    THEN [ok |-> TRUE, tr |-> v.val.tr]
    ELSE [ok |-> FALSE, tr |-> "none"]

\* event.get("data") of a parsed event
HasData(v) == v.kind = "object" /\ v.data # "absent"

\* serde_json::from_value::<TaskResult>(data.clone())
FromValueTaskResult(v) ==
  IF v.data = "object" /\ v.dtr \in ResultChars
    THEN [ok |-> TRUE, tr |-> v.dtr]
    ELSE [ok |-> FALSE, tr |-> "none"]

\* str::trim
RECURSIVE TrimEnd(_)
TrimEnd(s) ==
  IF Len(s) > 0 /\ IsWs(s[Len(s)]) THEN TrimEnd(SubSeq(s, 1, Len(s) - 1)) ELSE s

Trim(s) == LET t == TrimEnd(s) IN SubSeq(t, SkipWs(t, 1), Len(t))

\* --------------------------------------------------- extract_json_from_output

\* str::find / str::rfind: the index of the first / last ch, 0 for None
Find(s, ch) ==
  IF \E i \in 1..Len(s) : s[i] = ch
    THEN CHOOSE i \in 1..Len(s) : s[i] = ch /\ \A k \in 1..(i - 1) : s[k] # ch
    ELSE 0

\* A search that stops at the first ch, for comparison.
RFindMinimal(s, ch) == Find(s, ch)

RFind(s, ch) ==
  IF \E i \in 1..Len(s) : s[i] = ch
    THEN CHOOSE i \in 1..Len(s) : s[i] = ch /\ \A k \in (i + 1)..Len(s) : s[k] # ch
    ELSE 0

extract_json_from_output(output) ==
  LET start == Find(output, "{")
      end   == RFind(output, "}")
  IN IF start # 0 /\ end # 0 /\ end > start
       THEN [ok |-> TRUE, json |-> SubSeq(output, start, end)]
       ELSE [ok |-> FALSE, json |-> <<>>]

\* stdout_lines.join("\n")
RECURSIVE Join(_)
Join(lines) ==
  IF Len(lines) = 0 THEN <<>>
  ELSE IF Len(lines) = 1 THEN lines[1]
  ELSE lines[1] \o <<"nl">> \o Join(Tail(lines))

\* ------------------------------------------------------------ worker output

LnNoise == <<"x">>
LnBlank == <<"ws">>
LnTruncated == <<"{", "t_progress">>
LnScalar == <<"1">>
LnUntyped == <<"{", "p1", "}">>
LnTypeNum == <<"{", "t_num", "p2", "}">>
LnReady == <<"{", "t_ready", "}">>
LnPong == <<"{", "t_pong", "}">>
LnShutdownAck == <<"{", "t_shutdown_ack", "}">>
LnError == <<"{", "t_error", "}">>
LnProgress1 == <<"{", "t_progress", "p1", "}">>
LnProgress2 == <<"ws", "{", "t_progress", "p2", "}", "ws">>
LnResult1 == <<"{", "t_result", "d", "{", "R1", "}", "}">>
LnResult2 == <<"{", "t_result", "d", "{", "R2", "}", "}">>
LnResultNoData == <<"{", "t_result", "}">>
LnResultBadData == <<"{", "t_result", "d", "{", "p1", "}", "}">>
LnResultScalar == <<"{", "t_result", "d", "1", "}">>
LnTask1 == <<"{", "R1", "}">>
LnTask2 == <<"{", "R2", "}">>
LnTaskEvent == <<"{", "t_progress", "R2", "}">>
LnOpen == <<"x", "{", "R1">>
LnClose == <<"}", "x">>
LnOpenData == <<"{", "R2", "d">>
LnBrace == <<"}">>

\* What the persistent worker may write, for the runs with concurrent calls ...
ServerLines == {LnProgress1, LnResult1}
\* ... for the runs that look at the order of the events ...
ServerLinesOrder == {LnProgress1, LnProgress2, LnResult1}
\* ... for the runs that look at the one-shot path ...
ServerLinesControl == {LnReady, LnPong, LnShutdownAck, LnProgress1, LnResult1}
\* ... and for the runs of one call at a time.
ServerLinesAll ==
  {LnNoise, LnBlank, LnTruncated, LnScalar, LnUntyped, LnTypeNum, LnReady,
   LnPong, LnShutdownAck, LnError, LnProgress1, LnProgress2, LnResult1,
   LnResult2, LnResultNoData, LnResultBadData, LnResultScalar}

\* What a one-shot process may write.
OneshotLines == {LnTask1}
OneshotLinesAll ==
  {LnNoise, LnReady, LnPong, LnShutdownAck, LnProgress1, LnUntyped, LnTask1}
\* ... and where execute_oneshot is applied on its own: results on a line of
\* their own, with and without a "type", results spread over several lines,
\* and lines that are no TaskResult.
OneshotLinesFallback ==
  {LnNoise, LnProgress1, LnResult1, LnTask1, LnTask2, LnTaskEvent, LnOpen,
   LnClose, LnOpenData, LnBrace}

\* What a starting worker may write before it is ready.
ReadyLines == {LnReady, LnError, LnNoise, LnProgress1}

\* ... and where wait_for_ready is applied on its own.
ReadyLinesAll ==
  {LnReady, LnError, LnNoise, LnBlank, LnPong, LnProgress1, LnUntyped, LnResult1}

\* The characters of a text given to extract_json_from_output.
TextChars == {"{", "}", "x"}

\* The sequences over S of length at most n.
SeqsUpTo(S, n) == UNION {[1..k -> S] : k \in 0..n}

\* ------------------------------------------------------------------- state

Callers == {<<"call", 1>>, <<"call", 2>>}
Startup == <<"startup", 0>>
Restarts == {<<"restart", i>> : i \in 1..MaxCalls}
Procs == Callers \cup {Startup} \cup Restarts
NoProc == <<"none", 0>>

\* Option<PythonServer>: None, or a PythonServer, of which the model keeps
\* whether its worker gave "ready", whether its process has exited (what
\* try_wait sees) and whether an exchange on it has failed.
None == [some |-> FALSE, ready |-> FALSE, exited |-> FALSE, failed |-> FALSE]
PythonServer(ready) ==
  [some |-> TRUE, ready |-> ready, exited |-> FALSE, failed |-> FALSE]

NoResult == [kind |-> "none", val |-> ""]
Ok(v) == [kind |-> "ok", val |-> v]
Err(e) == [kind |-> "err", val |-> e]
NoOutcome == [kind |-> "none", val |-> "", from |-> "none"]
\* No function applied on its own.
NoFunction == [fn |-> "none", input |-> <<>>, output |-> <<>>]

VARIABLES
  pc,          \* where each task stands
  lock,        \* the task holding AppState.server's Mutex, or NoProc
  server,      \* AppState.server
  child,       \* per task: the PythonServer its launch_python_server call made
  lres,        \* per task: what its launch_python_server call returned
  vres,        \* per call: what execute_via_server returned
  outcome,     \* per call: what execute_task returns, and from which path
  fwd,         \* per call: the events emitted on "task-progress", in order
  rlines,      \* per call: the lines execute_via_server has read
  olines,      \* per call: stdout_lines of execute_oneshot
  wrote,       \* per call: execute commands it has written to a worker
  sched,       \* per call: background restarts it has scheduled
  alive,       \* per call: what ensure_server_alive found in the slot
  calls,       \* execute_task invocations so far
  applied      \* the function last applied on its own, its input and output

vars ==
  <<pc, lock, server, child, lres, vres, outcome, fwd, rlines, olines, wrote,
    sched, alive, calls, applied>>

sharedVars == <<lock, server, calls, applied>>
launchVars == <<child, lres>>
callVars == <<vres, outcome, fwd, rlines, olines, wrote, sched, alive>>

Init ==
  /\ pc = [p \in Procs |->
             IF p \in Callers THEN "idle"
             ELSE IF p = Startup THEN "lock" ELSE "unborn"]
  /\ lock = NoProc
  /\ server = None
  /\ child = [p \in Procs |-> None]
  /\ lres = [p \in Procs |-> NoResult]
  /\ vres = [c \in Callers |-> NoResult]
  /\ outcome = [c \in Callers |-> NoOutcome]
  /\ fwd = [c \in Callers |-> <<>>]
  /\ rlines = [c \in Callers |-> <<>>]
  /\ olines = [c \in Callers |-> <<>>]
  /\ wrote = [c \in Callers |-> 0]
  /\ sched = [c \in Callers |-> 0]
  /\ alive = [c \in Callers |-> ""]
  /\ calls = 0
  /\ applied = NoFunction

\* ---------------------------------------------------------------- the Mutex

\* A lock that excludes nobody, for comparison.
Unguarded == TRUE

\* state.server.lock().await returns only when no task holds the guard
LockFree == lock = NoProc

\* ---------------------------------------------------- launch_python_server

\* A wait that takes "pong" for "ready", for comparison.
WaitForReadyLinePong(l) ==
  LET e == FromStrValue(Trim(l)) IN
  IF e.ok /\ EventType(e.val) \in {"t_ready", "t_pong"} THEN Ok("ready")
  ELSE IF e.ok /\ EventType(e.val) = "t_error" THEN Err("init_error")
  ELSE NoResult

\* A wait that takes any event for the "ready" signal, for comparison.
WaitForReadyLineAny(l) ==
  LET e == FromStrValue(Trim(l)) IN
  IF e.ok /\ EventType(e.val) # "" THEN Ok("ready") ELSE NoResult

\* What one iteration of wait_for_ready's loop does with a line.
WaitForReadyLine(l) ==
  LET e == FromStrValue(Trim(l)) IN
  IF e.ok /\ EventType(e.val) = "t_ready" THEN Ok("ready")
  ELSE IF e.ok /\ EventType(e.val) = "t_error" THEN Err("init_error")
  ELSE NoResult

\* wait_for_ready over the lines the starting worker writes; when no line
\* decides, the wait ends at end: "read_error", "exited" (0 bytes read) or
\* "timeout" (the 30 s of launch_python_server pass first).
RECURSIVE wait_for_ready(_, _)
wait_for_ready(lines, end) ==
  IF Len(lines) = 0 THEN Err(end)
  ELSE IF WaitForReadyLine(Head(lines)).kind # "none"
    THEN WaitForReadyLine(Head(lines))
    ELSE wait_for_ready(Tail(lines), end)

LaunchEnds == {"spawn", "read_error", "exited", "timeout"}

\* Whether a worker that wrote lines has emitted the "ready" event.
EmittedReady(lines) ==
  \E i \in DOMAIN lines :
    /\ FromStrValue(Trim(lines[i])).ok
    /\ EventType(FromStrValue(Trim(lines[i])).val) = "t_ready"

\* One call of launch_python_server, which touches nothing shared until it
\* returns: end "spawn" is get_python_path, find_script, spawn or a take()
\* failing.  Ok keeps the child as a new PythonServer, which records whether
\* its worker has emitted "ready"; Err drops it.
launch_python_server(p, lines, end) ==
  /\ pc[p] = "launch"
  /\ end \in LaunchEnds
  /\ end = "spawn" => lines = <<>>
  /\ LET r == IF end = "spawn" THEN Err("spawn") ELSE wait_for_ready(lines, end) IN
       /\ lres' = [lres EXCEPT ![p] = r]
       /\ child' = [child EXCEPT ![p] =
                      IF r.kind = "ok" THEN PythonServer(EmittedReady(lines)) ELSE None]
  /\ pc' = [pc EXCEPT ![p] = "launched"]
  /\ UNCHANGED sharedVars
  /\ UNCHANGED callVars

\* ------------------------------------------------------ main: eager launch

StartupLock ==
  /\ pc[Startup] = "lock"
  /\ LockFree
  /\ lock' = Startup
  /\ pc' = [pc EXCEPT ![Startup] = "launch"]
  /\ UNCHANGED <<server, calls, applied>>
  /\ UNCHANGED launchVars
  /\ UNCHANGED callVars

\* A startup task that ends with the lock in its hand, for comparison.
StartupKeepsLock ==
  /\ pc[Startup] = "launched"
  /\ server' = IF lres[Startup].kind = "ok" THEN child[Startup] ELSE server
  /\ child' = [child EXCEPT ![Startup] = None]
  /\ lres' = [lres EXCEPT ![Startup] = NoResult]
  /\ pc' = [pc EXCEPT ![Startup] = "done"]
  /\ UNCHANGED <<lock, calls, applied>>
  /\ UNCHANGED callVars

\* match launch_python_server().await: Ok(s) => *guard = Some(s); the task
\* ends and its guard is dropped
StartupStore ==
  /\ pc[Startup] = "launched"
  /\ server' = IF lres[Startup].kind = "ok" THEN child[Startup] ELSE server
  /\ child' = [child EXCEPT ![Startup] = None]
  /\ lres' = [lres EXCEPT ![Startup] = NoResult]
  /\ lock' = NoProc
  /\ pc' = [pc EXCEPT ![Startup] = "done"]
  /\ UNCHANGED <<calls, applied>>
  /\ UNCHANGED callVars

\* ------------------------------------------------ spawn_background_restart

\* spawn_background_restart: one more detached task, asleep for 1 s
spawn_background_restart(pcs) ==
  LET free == {r \in Restarts : pcs[r] = "unborn"}
      r == CHOOSE x \in free : \A y \in free : x[2] <= y[2]
  IN [pcs EXCEPT ![r] = "sleep"]

\* tokio::time::sleep(1 s) has elapsed
RestartWake(r) ==
  /\ pc[r] = "sleep"
  /\ pc' = [pc EXCEPT ![r] = "lock"]
  /\ UNCHANGED sharedVars
  /\ UNCHANGED launchVars
  /\ UNCHANGED callVars

\* A restart task that gives up whatever the slot holds, for comparison.
RestartLockNever(r) ==
  /\ pc[r] = "lock"
  /\ LockFree
  /\ pc' = [pc EXCEPT ![r] = "unborn"]
  /\ UNCHANGED <<lock, server, calls, applied>>
  /\ UNCHANGED launchVars
  /\ UNCHANGED callVars

\* A restart task that launches whatever the slot holds, for comparison.
RestartLockAlways(r) ==
  /\ pc[r] = "lock"
  /\ LockFree
  /\ lock' = r
  /\ pc' = [pc EXCEPT ![r] = "launch"]
  /\ UNCHANGED <<server, calls, applied>>
  /\ UNCHANGED launchVars
  /\ UNCHANGED callVars

\* state.server.lock().await, then if guard.is_none(); when it is not, the
\* task ends at once
RestartLock(r) ==
  /\ pc[r] = "lock"
  /\ LockFree
  /\ IF ~server.some
       THEN /\ lock' = r
            /\ pc' = [pc EXCEPT ![r] = "launch"]
       ELSE /\ lock' = NoProc
            /\ pc' = [pc EXCEPT ![r] = "unborn"]
  /\ UNCHANGED <<server, calls, applied>>
  /\ UNCHANGED launchVars
  /\ UNCHANGED callVars

\* A restart task that ends with the lock in its hand, for comparison.
RestartKeepsLock(r) ==
  /\ pc[r] = "launched"
  /\ server' = IF lres[r].kind = "ok" THEN child[r] ELSE server
  /\ child' = [child EXCEPT ![r] = None]
  /\ lres' = [lres EXCEPT ![r] = NoResult]
  /\ pc' = [pc EXCEPT ![r] = "unborn"]
  /\ UNCHANGED <<lock, calls, applied>>
  /\ UNCHANGED callVars

\* Ok(s) => *guard = Some(s), Err(e) => a log line; the task ends and its
\* guard is dropped
RestartStore(r) ==
  /\ pc[r] = "launched"
  /\ server' = IF lres[r].kind = "ok" THEN child[r] ELSE server
  /\ child' = [child EXCEPT ![r] = None]
  /\ lres' = [lres EXCEPT ![r] = NoResult]
  /\ lock' = NoProc
  /\ pc' = [pc EXCEPT ![r] = "unborn"]
  /\ UNCHANGED <<calls, applied>>
  /\ UNCHANGED callVars

\* ------------------------------------------------------- the worker process

\* The stored worker's process exits on its own.
WorkerExit ==
  /\ server.some
  /\ ~server.exited
  /\ server' = [server EXCEPT !.exited = TRUE]
  /\ UNCHANGED <<pc, lock, calls, applied>>
  /\ UNCHANGED launchVars
  /\ UNCHANGED callVars

\* ------------------------------------------------------------ execute_task

\* The command is invoked: request_id is built, then state.server.lock().await.
\* Concurrent invocations are told apart by a number; a new one takes the
\* lowest number not in use.
ExecuteTask(c) ==
  /\ pc[c] = "idle"
  /\ \A d \in Callers : d[2] < c[2] => pc[d] # "idle"
  /\ calls < MaxCalls
  /\ calls' = calls + 1
  /\ pc' = [pc EXCEPT ![c] = "lock"]
  /\ UNCHANGED <<lock, server, applied>>
  /\ UNCHANGED launchVars
  /\ UNCHANGED callVars

ExecuteTaskLock(c) ==
  /\ pc[c] = "lock"
  /\ LockFree
  /\ lock' = c
  /\ pc' = [pc EXCEPT ![c] = "ensure"]
  /\ UNCHANGED <<server, calls, applied>>
  /\ UNCHANGED launchVars
  /\ UNCHANGED callVars

\* s.child.try_wait() on a stored worker: "running" is Ok(None), "exited"
\* Ok(Some(_)), "error" Err(_), which the system call may give at any time
TryWait(s) ==
  {"error"} \cup (IF s.exited THEN {"exited"} ELSE {"running"})

\* An ensure_server_alive that takes a failed try_wait for a running worker,
\* for comparison.
EnsureIgnoresError(c) ==
  /\ pc[c] = "ensure"
  /\ \E st \in (IF server.some THEN TryWait(server) ELSE {"none"}) :
       /\ alive' = [alive EXCEPT ![c] = st]
       /\ IF st \in {"running", "error"}
            THEN /\ pc' = [pc EXCEPT ![c] = "write"]
                 /\ UNCHANGED server
            ELSE /\ server' = None
                 /\ pc' = [pc EXCEPT ![c] = "launch"]
  /\ UNCHANGED <<lock, calls, applied>>
  /\ UNCHANGED launchVars
  /\ UNCHANGED <<vres, outcome, fwd, rlines, olines, wrote, sched>>

\* An ensure_server_alive that leaves the stale worker in the slot while it
\* launches, for comparison.
EnsureKeepsStale(c) ==
  /\ pc[c] = "ensure"
  /\ \E st \in (IF server.some THEN TryWait(server) ELSE {"none"}) :
       /\ alive' = [alive EXCEPT ![c] = st]
       /\ pc' = [pc EXCEPT ![c] = IF st = "running" THEN "write" ELSE "launch"]
  /\ UNCHANGED <<lock, server, calls, applied>>
  /\ UNCHANGED launchVars
  /\ UNCHANGED <<vres, outcome, fwd, rlines, olines, wrote, sched>>

\* ensure_server_alive up to its launch: needs_restart, then *server_opt = None
ensure_server_alive(c) ==
  /\ pc[c] = "ensure"
  /\ \E st \in (IF server.some THEN TryWait(server) ELSE {"none"}) :
       /\ alive' = [alive EXCEPT ![c] = st]
       /\ IF st = "running"
            THEN /\ pc' = [pc EXCEPT ![c] = "write"]
                 /\ UNCHANGED server
            ELSE /\ server' = None
                 /\ pc' = [pc EXCEPT ![c] = "launch"]
  /\ UNCHANGED <<lock, calls, applied>>
  /\ UNCHANGED launchVars
  /\ UNCHANGED <<vres, outcome, fwd, rlines, olines, wrote, sched>>

\* ensure_server_alive after launch_python_server().await?: the new worker
\* is stored; on Err execute_task drops the guard and goes to the one-shot
EnsureLaunched(c) ==
  /\ pc[c] = "launched"
  /\ IF lres[c].kind = "ok"
       THEN /\ server' = child[c]
            /\ pc' = [pc EXCEPT ![c] = "write"]
            /\ UNCHANGED <<lock, alive>>
       ELSE /\ lock' = NoProc
            /\ pc' = [pc EXCEPT ![c] = "oneshot"]
            /\ alive' = [alive EXCEPT ![c] = ""]
            /\ UNCHANGED server
  /\ child' = [child EXCEPT ![c] = None]
  /\ lres' = [lres EXCEPT ![c] = NoResult]
  /\ UNCHANGED <<calls, applied>>
  /\ UNCHANGED <<vres, outcome, fwd, rlines, olines, wrote, sched>>

\* ------------------------------------------------------ execute_via_server

ControlTypes == {"t_ready", "t_pong", "t_shutdown_ack"}

\* A return that leaves the loop running, for comparison.
ViaReturnStay(c, r) ==
  /\ vres' = [vres EXCEPT ![c] = r]
  /\ UNCHANGED <<server, pc>>

\* execute_via_server returns r to execute_task (an Err marks the worker as
\* one on which an exchange has failed)
ViaReturn(c, r) ==
  /\ vres' = [vres EXCEPT ![c] = r]
  /\ server' = [server EXCEPT !.failed = @ \/ r.kind = "err"]
  /\ pc' = [pc EXCEPT ![c] = "via_ret"]

\* server.stdin.write_all(cmd_line)
ViaServerWrite(c) ==
  /\ pc[c] = "write"
  /\ \/ /\ wrote' = [wrote EXCEPT ![c] = @ + 1]
        /\ pc' = [pc EXCEPT ![c] = "flush"]
        /\ UNCHANGED <<vres, server>>
     \/ /\ ViaReturn(c, Err("write"))
        /\ UNCHANGED wrote
  /\ alive' = [alive EXCEPT ![c] = ""]
  /\ UNCHANGED <<lock, calls, applied>>
  /\ UNCHANGED launchVars
  /\ UNCHANGED <<outcome, fwd, rlines, olines, sched>>

\* server.stdin.flush()
ViaServerFlush(c) ==
  /\ pc[c] = "flush"
  /\ \/ /\ pc' = [pc EXCEPT ![c] = "read"]
        /\ UNCHANGED <<vres, server>>
     \/ ViaReturn(c, Err("flush"))
  /\ UNCHANGED <<lock, calls, applied>>
  /\ UNCHANGED launchVars
  /\ UNCHANGED <<outcome, fwd, rlines, olines, alive, wrote, sched>>

\* A loop that skips a result event whose payload is missing or malformed,
\* for comparison.
ViaServerLineLax(l) ==
  LET event == FromStrValue(Trim(l))
      event_type == EventType(event.val)
      data == FromValueTaskResult(event.val)
  IN IF ~event.ok \/ event_type \in ControlTypes
       THEN [act |-> "continue", ev |-> NullValue, res |-> NoResult]
     ELSE IF event_type = "t_result"
       THEN IF HasData(event.val) /\ data.ok
              THEN [act |-> "return", ev |-> NullValue, res |-> Ok(data.tr)]
              ELSE [act |-> "continue", ev |-> NullValue, res |-> NoResult]
     ELSE [act |-> "emit", ev |-> event.val, res |-> NoResult]

\* A loop that an "error" event ends, for comparison.
ViaServerLineErrorEnds(l) ==
  LET event == FromStrValue(Trim(l))
      event_type == EventType(event.val)
  IN IF ~event.ok \/ event_type \in ControlTypes
       THEN [act |-> "continue", ev |-> NullValue, res |-> NoResult]
     ELSE IF event_type = "t_result"
       THEN IF HasData(event.val)
              THEN [act |-> "return", ev |-> NullValue,
                    res |-> IF FromValueTaskResult(event.val).ok
                              THEN Ok(FromValueTaskResult(event.val).tr)
                              ELSE Err("decode")]
              ELSE [act |-> "return", ev |-> NullValue, res |-> Err("nodata")]
     ELSE IF event_type = "t_error"
       THEN [act |-> "return", ev |-> NullValue, res |-> Err("error")]
     ELSE [act |-> "emit", ev |-> event.val, res |-> NoResult]

\* What one iteration of the read loop does with a line of bytes_read > 0:
\* act "continue" | "emit" (ev on "task-progress") | "return" (res).
ViaServerLine(l) ==
  LET trimmed == Trim(l)
      event == FromStrValue(trimmed)
      event_type == EventType(event.val)
      skip == [act |-> "continue", ev |-> NullValue, res |-> NoResult]
  IN IF Len(trimmed) = 0 THEN skip
     ELSE IF ~event.ok THEN skip
     ELSE IF event_type \in ControlTypes THEN skip
     ELSE IF event_type = "t_result"
       THEN IF HasData(event.val)
              THEN [act |-> "return", ev |-> NullValue,
                    res |-> IF FromValueTaskResult(event.val).ok
                              THEN Ok(FromValueTaskResult(event.val).tr)
                              ELSE Err("decode")]
              ELSE [act |-> "return", ev |-> NullValue, res |-> Err("nodata")]
     ELSE [act |-> "emit", ev |-> event.val, res |-> NoResult]

\* A loop that hands the newest event over first, for comparison.
ViaServerReadReversed(c, l) ==
  /\ pc[c] = "read"
  /\ rlines' = [rlines EXCEPT ![c] = Append(@, l)]
  /\ LET step == ViaServerLine(l) IN
       /\ fwd' = [fwd EXCEPT ![c] = IF step.act = "emit" THEN <<step.ev>> \o @ ELSE @]
       /\ IF step.act = "return"
            THEN ViaReturn(c, step.res)
            ELSE UNCHANGED <<pc, vres, server>>
  /\ UNCHANGED <<lock, calls, applied>>
  /\ UNCHANGED launchVars
  /\ UNCHANGED <<outcome, olines, alive, wrote, sched>>

\* server.reader.read_line gives a line
ViaServerRead(c, l) ==
  /\ pc[c] = "read"
  /\ rlines' = [rlines EXCEPT ![c] = Append(@, l)]
  /\ LET step == ViaServerLine(l) IN
       /\ fwd' = [fwd EXCEPT ![c] = IF step.act = "emit" THEN Append(@, step.ev) ELSE @]
       /\ IF step.act = "return"
            THEN ViaReturn(c, step.res)
            ELSE UNCHANGED <<pc, vres, server>>
  /\ UNCHANGED <<lock, calls, applied>>
  /\ UNCHANGED launchVars
  /\ UNCHANGED <<outcome, olines, alive, wrote, sched>>

\* read_line gives Ok(0), no byte and so an empty line: the stream is at its
\* end; or it gives Err(_)
ViaServerReadEnd(c, r) ==
  /\ pc[c] = "read"
  /\ r \in {"Ok(0)", "Err"}
  /\ rlines' = [rlines EXCEPT ![c] = IF r = "Ok(0)" THEN Append(@, <<>>) ELSE @]
  /\ ViaReturn(c, IF r = "Ok(0)" THEN Err("PROCESS_CRASHED") ELSE Err("read"))
  /\ UNCHANGED <<lock, calls, applied>>
  /\ UNCHANGED launchVars
  /\ UNCHANGED <<outcome, fwd, olines, alive, wrote, sched>>

\* ------------------------------------- execute_task: the match on the result

\* An Ok arm that falls through to the one-shot run, for comparison.
OkRunsOneshotToo(c) ==
  /\ pc[c] = "via_ret"
  /\ vres[c].kind = "ok"
  /\ pc' = [pc EXCEPT ![c] = "unlock"]
  /\ UNCHANGED <<lock, server, calls, applied>>
  /\ UNCHANGED launchVars
  /\ UNCHANGED callVars

\* Ok(result) => return Ok(result); the guard is dropped on the way out
ExecuteTaskOk(c) ==
  /\ pc[c] = "via_ret"
  /\ vres[c].kind = "ok"
  /\ outcome' = [outcome EXCEPT ![c] =
                   [kind |-> "ok", val |-> vres[c].val, from |-> "server"]]
  /\ lock' = NoProc
  /\ pc' = [pc EXCEPT ![c] = "done"]
  /\ UNCHANGED <<server, calls, applied>>
  /\ UNCHANGED launchVars
  /\ UNCHANGED <<vres, fwd, rlines, olines, alive, wrote, sched>>

\* A crash arm that leaves the slot as it is, for comparison.
CrashedKeepsServer(c) ==
  /\ pc[c] = "via_ret"
  /\ vres[c] = Err("PROCESS_CRASHED")
  /\ pc' = spawn_background_restart([pc EXCEPT ![c] = "unlock"])
  /\ sched' = [sched EXCEPT ![c] = @ + 1]
  /\ UNCHANGED <<lock, server, calls, applied>>
  /\ UNCHANGED launchVars
  /\ UNCHANGED <<vres, outcome, fwd, rlines, olines, alive, wrote>>

\* Err(e) if e == "PROCESS_CRASHED": *guard = None, spawn_background_restart
ExecuteTaskCrashed(c) ==
  /\ pc[c] = "via_ret"
  /\ vres[c] = Err("PROCESS_CRASHED")
  /\ server' = None
  /\ pc' = spawn_background_restart([pc EXCEPT ![c] = "unlock"])
  /\ sched' = [sched EXCEPT ![c] = @ + 1]
  /\ UNCHANGED <<lock, calls, applied>>
  /\ UNCHANGED launchVars
  /\ UNCHANGED <<vres, outcome, fwd, rlines, olines, alive, wrote>>

\* An error arm that schedules no restart, for comparison.
FailedNoRestart(c) ==
  /\ pc[c] = "via_ret"
  /\ vres[c].kind = "err"
  /\ vres[c] # Err("PROCESS_CRASHED")
  /\ server' = None
  /\ pc' = [pc EXCEPT ![c] = "unlock"]
  /\ UNCHANGED <<lock, calls, applied>>
  /\ UNCHANGED launchVars
  /\ UNCHANGED callVars

\* An error arm that leaves the slot as it is, for comparison.
FailedKeepsServer(c) ==
  /\ pc[c] = "via_ret"
  /\ vres[c].kind = "err"
  /\ vres[c] # Err("PROCESS_CRASHED")
  /\ pc' = spawn_background_restart([pc EXCEPT ![c] = "unlock"])
  /\ sched' = [sched EXCEPT ![c] = @ + 1]
  /\ UNCHANGED <<lock, server, calls, applied>>
  /\ UNCHANGED launchVars
  /\ UNCHANGED <<vres, outcome, fwd, rlines, olines, alive, wrote>>

\* Err(e): *guard = None, spawn_background_restart
ExecuteTaskFailed(c) ==
  /\ pc[c] = "via_ret"
  /\ vres[c].kind = "err"
  /\ vres[c] # Err("PROCESS_CRASHED")
  /\ server' = None
  /\ pc' = spawn_background_restart([pc EXCEPT ![c] = "unlock"])
  /\ sched' = [sched EXCEPT ![c] = @ + 1]
  /\ UNCHANGED <<lock, calls, applied>>
  /\ UNCHANGED launchVars
  /\ UNCHANGED <<vres, outcome, fwd, rlines, olines, alive, wrote>>

\* A call that goes on to the one-shot run with the lock in its hand, for
\* comparison.
UnlockKeepsLock(c) ==
  /\ pc[c] = "unlock"
  /\ pc' = [pc EXCEPT ![c] = "oneshot"]
  /\ rlines' = [rlines EXCEPT ![c] = <<>>]
  /\ UNCHANGED <<lock, server, calls, applied>>
  /\ UNCHANGED launchVars
  /\ UNCHANGED <<vres, outcome, fwd, olines, alive, wrote, sched>>

\* The block of the persistent attempt ends: the guard is dropped (and with
\* execute_via_server over, the record of the lines it read is let go)
ExecuteTaskUnlock(c) ==
  /\ pc[c] = "unlock"
  /\ lock' = NoProc
  /\ pc' = [pc EXCEPT ![c] = "oneshot"]
  /\ rlines' = [rlines EXCEPT ![c] = <<>>]
  /\ UNCHANGED <<server, calls, applied>>
  /\ UNCHANGED launchVars
  /\ UNCHANGED <<vres, outcome, fwd, olines, alive, wrote, sched>>

\* --------------------------------------------------------- execute_oneshot

\* execute_task returns r, which execute_oneshot produced
OneshotReturn(c, r) ==
  /\ outcome' = [outcome EXCEPT ![c] =
                   [kind |-> r.kind, val |-> r.val, from |-> "oneshot"]]
  /\ pc' = [pc EXCEPT ![c] = "done"]

\* A one-shot loop that filters the control events, for comparison.
OneshotEmitsNoControl(l) ==
  /\ FromStrValue(l).ok
  /\ EventType(FromStrValue(l).val) \notin ControlTypes \cup {""}

\* Whether the loop emits the line's event on "task-progress".
OneshotEmits(l) ==
  FromStrValue(l).ok /\ EventType(FromStrValue(l).val) # ""

\* The events the loop for line in reader emits over lines, in order.
RECURSIVE OneshotForwards(_)
OneshotForwards(lines) ==
  IF Len(lines) = 0 THEN <<>>
  ELSE (IF OneshotEmits(Head(lines)) THEN <<FromStrValue(Head(lines)).val>> ELSE <<>>)
       \o OneshotForwards(Tail(lines))

\* final_result after that loop: the last line that is a TaskResult.
RECURSIVE OneshotFinal(_)
OneshotFinal(lines) ==
  IF Len(lines) = 0 THEN "none"
  ELSE IF FromStrTaskResult(lines[Len(lines)]).ok
    THEN FromStrTaskResult(lines[Len(lines)]).tr
    ELSE OneshotFinal(SubSeq(lines, 1, Len(lines) - 1))

\* A run that returns the first line that is a TaskResult, for comparison.
OneshotResultFirst(lines, final_result) ==
  LET direct == {i \in DOMAIN lines : FromStrTaskResult(lines[i]).ok} IN
  IF direct # {}
    THEN Ok(FromStrTaskResult(
              lines[CHOOSE i \in direct : \A k \in direct : i <= k]).tr)
    ELSE Err("no_json")

\* What execute_oneshot returns once stdout is at its end and the child waited for.
OneshotResult(lines, final_result) ==
  IF final_result # "none" THEN Ok(final_result)
  ELSE LET stdout_content == Join(lines)
           json_str == extract_json_from_output(stdout_content)
       IN IF ~json_str.ok THEN Err("no_json")
          ELSE IF FromStrTaskResult(json_str.json).ok
            THEN Ok(FromStrTaskResult(json_str.json).tr)
            ELSE Err("parse")

OneshotEnds == {"spawn", "read", "wait", "finish"}

\* One run of execute_oneshot, which shares nothing with the other tasks:
\* the process writes lines, and the run ends at "spawn" (the path lookup or
\* the spawn fails, nothing is read), at "read" (reading stdout fails after
\* lines), at "wait" (child.wait() fails) or at "finish".
execute_oneshot(c, lines, end) ==
  /\ pc[c] = "oneshot"
  /\ end \in OneshotEnds
  /\ end = "spawn" => lines = <<>>
  /\ olines' = [olines EXCEPT ![c] = lines]
  /\ fwd' = [fwd EXCEPT ![c] = @ \o OneshotForwards(lines)]
  /\ OneshotReturn(c, IF end = "finish"
                        THEN OneshotResult(lines, OneshotFinal(lines))
                        ELSE Err(end))
  /\ UNCHANGED sharedVars
  /\ UNCHANGED launchVars
  /\ UNCHANGED <<vres, rlines, wrote, sched, alive>>

\* The caller has the outcome; the call and its locals are gone.
ExecuteTaskReturn(c) ==
  /\ pc[c] = "done"
  /\ pc' = [pc EXCEPT ![c] = "idle"]
  /\ vres' = [vres EXCEPT ![c] = NoResult]
  /\ outcome' = [outcome EXCEPT ![c] = NoOutcome]
  /\ fwd' = [fwd EXCEPT ![c] = <<>>]
  /\ rlines' = [rlines EXCEPT ![c] = <<>>]
  /\ olines' = [olines EXCEPT ![c] = <<>>]
  /\ wrote' = [wrote EXCEPT ![c] = 0]
  /\ sched' = [sched EXCEPT ![c] = 0]
  /\ UNCHANGED alive
  /\ UNCHANGED sharedVars
  /\ UNCHANGED launchVars

\* ------------------------------------------------------------ specifications

\* A call that has its outcome returns it before any other task takes a step:
\* between the two nothing is awaited, and the return touches nothing shared.
Returning == \E c \in Callers : pc[c] = "done"

\* The steps of the calls in CS and of the background tasks, the persistent
\* worker writing up to n lines of SL in an exchange and a one-shot process
\* lines of OL.
NextOf(CS, SL, OL, n) ==
  \/ ~Returning /\ StartupLock
  \/ ~Returning /\ StartupStore
  \/ ~Returning /\ WorkerExit
  \/ ~Returning /\ \E p \in Procs, lines \in SeqsUpTo(ReadyLines, MaxOutput),
                      end \in LaunchEnds : launch_python_server(p, lines, end)
  \/ ~Returning /\ \E r \in Restarts : RestartWake(r)
  \/ ~Returning /\ \E r \in Restarts : RestartLock(r)
  \/ ~Returning /\ \E r \in Restarts : RestartStore(r)
  \/ ~Returning /\ \E c \in CS : ExecuteTask(c)
  \/ ~Returning /\ \E c \in CS : ExecuteTaskLock(c)
  \/ ~Returning /\ \E c \in CS : ensure_server_alive(c)
  \/ ~Returning /\ \E c \in CS : EnsureLaunched(c)
  \/ ~Returning /\ \E c \in CS : ViaServerWrite(c)
  \/ ~Returning /\ \E c \in CS : ViaServerFlush(c)
  \/ ~Returning /\ \E c \in CS, l \in SL :
                      Len(rlines[c]) < n /\ ViaServerRead(c, l)
  \/ ~Returning /\ \E c \in CS, r \in {"Ok(0)", "Err"} :
                      ViaServerReadEnd(c, r)
  \/ ~Returning /\ \E c \in CS : ExecuteTaskOk(c)
  \/ ~Returning /\ \E c \in CS : ExecuteTaskCrashed(c)
  \/ ~Returning /\ \E c \in CS : ExecuteTaskFailed(c)
  \/ ~Returning /\ \E c \in CS : ExecuteTaskUnlock(c)
  \/ ~Returning /\ \E c \in CS, lines \in SeqsUpTo(OL, MaxOutput),
                      end \in OneshotEnds : execute_oneshot(c, lines, end)
  \/ \E c \in CS : ExecuteTaskReturn(c)

\* Concurrent calls.
Next == NextOf(Callers, ServerLines, OneshotLines, MaxLines)

Spec == Init /\ [][Next]_vars

\* One call at a time, the persistent worker writing every kind of line.
NextLines == NextOf({<<"call", 1>>}, ServerLinesAll, OneshotLines, MaxLines)

SpecLines == Init /\ [][NextLines]_vars

\* One call at a time, the persistent worker writing several events.
NextOrder ==
  NextOf({<<"call", 1>>}, ServerLinesOrder, OneshotLines, MaxOrderLines)

SpecOrder == Init /\ [][NextOrder]_vars

\* One call at a time, the one-shot process writing every kind of line.
NextOneshot ==
  NextOf({<<"call", 1>>}, ServerLinesControl, OneshotLinesAll, MaxLines)

SpecOneshot == Init /\ [][NextOneshot]_vars

\* One call at a time under fair scheduling: the runtime runs every task
\* that can run, a launch ends within its 30 s, and every worker process in
\* the end writes its last line or closes its output, so that whatever step
\* can be taken is taken in the end.
NextFair == NextOf({<<"call", 1>>}, ServerLines, OneshotLines, MaxLines)

FairSpec == Init /\ [][NextFair]_vars /\ WF_vars(NextFair)

\* The readiness wait of launch_python_server applied on its own: the
\* starting worker writes lines, and then its output ends as end says.
ApplyWaitForReady(lines, end) ==
  /\ applied.fn = "none"
  /\ end \in LaunchEnds \ {"spawn"}
  /\ applied' = [fn |-> "wait_for_ready",
                 input |-> [lines |-> lines, end |-> end],
                 output |-> wait_for_ready(lines, end)]
  /\ UNCHANGED <<pc, lock, server, calls>>
  /\ UNCHANGED launchVars
  /\ UNCHANGED callVars

\* extract_json_from_output applied on its own to a text.
ApplyExtractJson(text) ==
  /\ applied.fn = "none"
  /\ applied' = [fn |-> "extract_json_from_output",
                 input |-> [text |-> text],
                 output |-> extract_json_from_output(text)]
  /\ UNCHANGED <<pc, lock, server, calls>>
  /\ UNCHANGED launchVars
  /\ UNCHANGED callVars

\* execute_oneshot applied on its own: the process writes lines, the run
\* ends as end says, and events and result are what the run emitted and
\* returned.
ApplyExecuteOneshot(lines, end) ==
  /\ applied.fn = "none"
  /\ end \in OneshotEnds
  /\ end = "spawn" => lines = <<>>
  /\ applied' = [fn |-> "execute_oneshot",
                 input |-> [lines |-> lines, end |-> end],
                 output |-> [events |-> OneshotForwards(lines),
                             result |-> IF end = "finish"
                                          THEN OneshotResult(lines, OneshotFinal(lines))
                                          ELSE Err(end)]]
  /\ UNCHANGED <<pc, lock, server, calls>>
  /\ UNCHANGED launchVars
  /\ UNCHANGED callVars

NextFunctions ==
  \/ \E lines \in SeqsUpTo(ReadyLinesAll, MaxReadyLines),
        end \in LaunchEnds \ {"spawn"} : ApplyWaitForReady(lines, end)
  \/ \E text \in SeqsUpTo(TextChars, MaxText) : ApplyExtractJson(text)
  \/ \E lines \in SeqsUpTo(OneshotLinesFallback, MaxFallbackLines),
        end \in OneshotEnds : ApplyExecuteOneshot(lines, end)

\* One of the three functions applied on its own, once, to any input up to
\* the bounds.
SpecFunctions == Init /\ [][NextFunctions]_vars

\* ------------------------------------------------------------- properties

\* The last line execute_via_server read in call c (<<>> is the read of no
\* byte).
LastLine(c) == rlines[c][Len(rlines[c])]

\* What a line is to a reader of the protocol.
IsEvent(l) == FromStrValue(Trim(l)).ok
TypeOf(l) == EventType(FromStrValue(Trim(l)).val)
IsControlLine(l) == IsEvent(l) /\ TypeOf(l) \in ControlTypes
IsResultLine(l) == IsEvent(l) /\ TypeOf(l) = "t_result"
IsProgressLine(l) ==
  IsEvent(l) /\ TypeOf(l) \notin ControlTypes \cup {"t_result", ""}
IsGoodResult(l) ==
  /\ IsResultLine(l)
  /\ HasData(FromStrValue(Trim(l)).val)
  /\ FromValueTaskResult(FromStrValue(Trim(l)).val).ok
IsMalformedResult(l) == IsResultLine(l) /\ ~IsGoodResult(l)

\* Call c is inside execute_via_server, or has its result in hand with the
\* guard not yet dropped.
InExchange(c) == pc[c] \in {"write", "flush", "read", "via_ret"}

\* C1: persistent exchanges are serialized.  A call that is writing, flushing
\* or reading, or has just got the result of execute_via_server, holds the
\* slot's lock, and no other call is inside an exchange at that time.
C1_Serialized ==
  \A c \in Callers :
    InExchange(c) =>
      /\ lock = c
      /\ \A d \in Callers \ {c} : ~InExchange(d)

\* An exchange under way, its command written, while the other call waits
\* for the lock.
C1_Witness ==
  \E c, d \in Callers :
    /\ c # d
    /\ pc[c] = "read"
    /\ wrote[c] = 1
    /\ pc[d] = "lock"

\* C2: the worker dies during an exchange.  A read of no byte makes
\* execute_via_server return "PROCESS_CRASHED"; with that result the slot is
\* empty while the call still holds the lock on its way out, the call lets
\* go of the lock only to run execute_oneshot, and what it returns is what
\* execute_oneshot returned.
C2_Crash ==
  \A c \in Callers :
    /\ (pc[c] = "via_ret" /\ Len(rlines[c]) > 0 /\ LastLine(c) = <<>>)
         => vres[c] = Err("PROCESS_CRASHED")
    /\ (vres[c] = Err("PROCESS_CRASHED") /\ pc[c] = "unlock")
         => lock = c /\ ~server.some
    /\ (vres[c] = Err("PROCESS_CRASHED") /\ lock # c)
         => pc[c] \in {"oneshot", "done"}
    /\ (vres[c] = Err("PROCESS_CRASHED") /\ pc[c] = "done")
         => outcome[c].from = "oneshot"

\* A call whose worker died after one event, and which the one-shot run
\* then served.
C2_Witness ==
  \E c \in Callers :
    /\ vres[c] = Err("PROCESS_CRASHED")
    /\ pc[c] = "done"
    /\ Len(fwd[c]) = 1
    /\ outcome[c].kind = "ok"

\* C3: at most one live PythonServer.  No task holds a PythonServer it has
\* just made while the slot holds one.
C3_OneHandle ==
  \A p \in Procs : child[p].some => ~server.some

\* C4: on the persistent path every event emitted on "task-progress"
\* carries a string "type".
C4_OnlyTyped ==
  \A c \in Callers :
    pc[c] \in {"read", "via_ret"} =>
      \A i \in DOMAIN fwd[c] : EventType(fwd[c][i]) # ""

\* C5 as stated: a restart is scheduled only after "PROCESS_CRASHED", and
\* any other error of execute_via_server is what the call returns, with no
\* restart scheduled.
C5_OnlyOnCrash ==
  \A c \in Callers :
    /\ sched[c] > 0 => vres[c] = Err("PROCESS_CRASHED")
    /\ (pc[c] = "done" /\ vres[c].kind = "err" /\ vres[c] # Err("PROCESS_CRASHED"))
         => /\ outcome[c].kind = "err"
            /\ outcome[c].val = vres[c].val

\* C5: a restart is scheduled exactly when execute_via_server has returned
\* an error, "PROCESS_CRASHED" or any other, and the match on it is done: one
\* restart, none before and none for a call whose execute_via_server gave Ok
\* or never ran.  No such error is returned to the caller: the call's outcome
\* is then the one of execute_oneshot.
C5_RestartOnAnyError ==
  \A c \in Callers :
    /\ sched[c] = IF vres[c].kind = "err" /\ pc[c] # "via_ret" THEN 1 ELSE 0
    /\ (pc[c] = "done" /\ vres[c].kind = "err") => outcome[c].from = "oneshot"

\* A call whose write failed: a restart is scheduled and the one-shot run
\* gave the outcome.
C5_Witness ==
  \E c \in Callers :
    /\ pc[c] = "done"
    /\ vres[c] = Err("write")
    /\ sched[c] = 1
    /\ outcome[c].from = "oneshot"

\* C6 as stated: after a result event whose payload is missing or is no
\* TaskResult, execute_task returns the error that says so.
C6_ReturnsTheError ==
  \A c \in Callers :
    (pc[c] = "done" /\ vres[c] \in {Err("nodata"), Err("decode")})
      => /\ outcome[c].kind = "err"
         /\ outcome[c].val = vres[c].val

\* C6: a result event whose payload is missing or is no TaskResult ends the
\* loop at once, execute_via_server returning the error that says which of
\* the two it is; execute_task then schedules a restart and returns what
\* execute_oneshot returns.
C6_MalformedResult ==
  \A c \in Callers :
    /\ (pc[c] \in {"read", "via_ret"} /\ Len(rlines[c]) > 0
          /\ IsMalformedResult(LastLine(c)))
         => /\ pc[c] = "via_ret"
            /\ vres[c] = IF HasData(FromStrValue(Trim(LastLine(c))).val)
                           THEN Err("decode") ELSE Err("nodata")
    /\ (pc[c] = "done" /\ vres[c] \in {Err("nodata"), Err("decode")})
         => outcome[c].from = "oneshot" /\ sched[c] = 1

\* A call that met a result event without "data" and still returned Ok.
C6_Witness ==
  \E c \in Callers :
    /\ pc[c] = "done"
    /\ vres[c] = Err("nodata")
    /\ outcome[c].kind = "ok"

\* C7: any error of execute_via_server, crash or other.  Once the match on
\* it is done the slot is empty under the call's lock and the call has
\* scheduled exactly one restart; its outcome is the one of execute_oneshot;
\* and a PythonServer on which an exchange has failed is in the slot only
\* until the failing call, still holding the lock, has taken it out, so that
\* no later request meets it.
C7_AnyFailure ==
  /\ \A c \in Callers :
       /\ (vres[c].kind = "err" /\ pc[c] = "unlock")
            => lock = c /\ ~server.some /\ sched[c] = 1
       /\ (vres[c].kind = "err" /\ pc[c] \in {"oneshot", "done"})
            => sched[c] = 1
       /\ (vres[c].kind = "err" /\ pc[c] = "done")
            => outcome[c].from = "oneshot"
  /\ server.failed => \E c \in Callers : lock = c /\ pc[c] = "via_ret"

\* A call whose flush failed, the slot emptied and the lock still held,
\* while the other call waits for the lock.
C7_Witness ==
  \E c, d \in Callers :
    /\ pc[c] = "unlock"
    /\ vres[c] = Err("flush")
    /\ pc[d] = "lock"

\* The events of a control type among events, and the lines of a control
\* type among lines of a one-shot process.
ControlEvents(events) ==
  Cardinality({i \in DOMAIN events : EventType(events[i]) \in ControlTypes})
ControlLines(lines) ==
  Cardinality({i \in DOMAIN lines :
                 /\ FromStrValue(lines[i]).ok
                 /\ EventType(FromStrValue(lines[i]).val) \in ControlTypes})

\* C8 as stated: no event emitted on "task-progress" is a control event.
C8_NeverControl ==
  \A c \in Callers : ControlEvents(fwd[c]) = 0

\* C8: execute_via_server emits no control event; execute_oneshot emits
\* every control event its process writes.
C8_ControlOnlyOneshot ==
  \A c \in Callers :
    /\ (InExchange(c) \/ pc[c] = "unlock") => ControlEvents(fwd[c]) = 0
    /\ (pc[c] = "done" /\ outcome[c].from = "server")
         => ControlEvents(fwd[c]) = 0
    /\ (pc[c] = "done" /\ outcome[c].from = "oneshot")
         => ControlEvents(fwd[c]) = ControlLines(olines[c])

\* A call that read "pong" from the persistent worker, went on to the
\* one-shot run and emitted its "ready".
C8_Witness ==
  \E c \in Callers :
    /\ pc[c] = "done"
    /\ wrote[c] = 1
    /\ vres[c] = Err("PROCESS_CRASHED")
    /\ \E i \in DOMAIN olines[c] : olines[c][i] = LnReady
    /\ \E i \in DOMAIN fwd[c] : EventType(fwd[c][i]) = "t_ready"

\* The events of the progress lines among lines, in the order of the lines.
RECURSIVE ProgressEvents(_)
ProgressEvents(lines) ==
  IF Len(lines) = 0 THEN <<>>
  ELSE (IF IsProgressLine(Head(lines))
          THEN <<FromStrValue(Trim(Head(lines))).val>> ELSE <<>>)
       \o ProgressEvents(Tail(lines))

\* C9: the order of the events.  While execute_via_server reads, and when it
\* has returned, the events emitted are those of the progress lines read, in
\* the order the worker wrote them; and when the last line read is a result
\* event with a TaskResult, after progress lines only, every one of these
\* has been emitted, the loop has ended without another read and the result
\* is that TaskResult.
C9_Order ==
  \A c \in Callers :
    /\ pc[c] \in {"read", "via_ret"} => fwd[c] = ProgressEvents(rlines[c])
    /\ (pc[c] \in {"read", "via_ret"} /\ Len(rlines[c]) > 0
          /\ IsGoodResult(LastLine(c))
          /\ \A i \in 1..(Len(rlines[c]) - 1) : IsProgressLine(rlines[c][i]))
         => /\ pc[c] = "via_ret"
            /\ Len(fwd[c]) = Len(rlines[c]) - 1
            /\ vres[c] =
                 Ok(FromValueTaskResult(FromStrValue(Trim(LastLine(c))).val).tr)

\* Two different progress events and then the result.
C9_Witness ==
  \E c \in Callers :
    /\ pc[c] = "via_ret"
    /\ rlines[c] = <<LnProgress2, LnProgress1, LnResult1>>
    /\ Len(fwd[c]) = 2
    /\ fwd[c][1] # fwd[c][2]
    /\ vres[c] = Ok("R1")

\* C10: one terminal outcome per call of execute_via_server.  While it
\* writes, flushes and reads it has returned nothing; when it has returned,
\* it has returned either Ok with a TaskResult or one Err; and no line read
\* before the last one is a result event, so the loop ended at the first.
C10_OneOutcome ==
  \A c \in Callers :
    /\ pc[c] \in {"write", "flush", "read"} => vres[c] = NoResult
    /\ pc[c] = "via_ret" =>
         \/ vres[c].kind = "ok" /\ vres[c].val \in ResultChars
         \/ vres[c].kind = "err"
    /\ pc[c] = "read" =>
         \A i \in DOMAIN rlines[c] : ~IsResultLine(rlines[c][i])
    /\ pc[c] = "via_ret" =>
         \A i \in 1..(Len(rlines[c]) - 1) : ~IsResultLine(rlines[c][i])

\* A result event read after another line, and Ok returned.
C10_Witness ==
  \E c \in Callers :
    /\ pc[c] = "via_ret"
    /\ Len(rlines[c]) = 2
    /\ IsResultLine(LastLine(c))
    /\ vres[c].kind = "ok"

\* C11: the restart task.  It is in its launch only with the lock in hand
\* and the slot empty; when it gets the lock and the slot holds a worker, it
\* ends there, launching nothing and leaving the slot and the lock as they
\* were; and when its launch has failed it ends with the slot still empty and
\* the lock free, and no call's result or outcome changes by it.
C11_Restart ==
  [][\A r \in Restarts :
       /\ pc'[r] \in {"launch", "launched"} => lock' = r /\ ~server'.some
       /\ (pc[r] = "lock" /\ pc'[r] # "lock" /\ server.some)
            => /\ pc'[r] = "unborn"
               /\ server' = server
               /\ child' = child
               /\ lock' = lock
       /\ (pc[r] = "launched" /\ pc'[r] # "launched" /\ lres[r].kind = "err")
            => /\ pc'[r] = "unborn"
               /\ ~server'.some
               /\ lock' = NoProc
               /\ vres' = vres
               /\ outcome' = outcome]_vars

\* A restart task whose launch has failed, the lock still in its hand, while
\* a call waits for the lock.
C11_Witness ==
  \E r \in Restarts, c \in Callers :
    /\ pc[r] = "launched"
    /\ lres[r].kind = "err"
    /\ lock = r
    /\ pc[c] = "lock"

\* Where a task stands while it has the lock.
Holding ==
  {"launch", "launched", "ensure", "write", "flush", "read", "via_ret", "unlock"}

\* Task p can take its next step.
CanStep(p) ==
  \/ ENABLED launch_python_server(p, <<>>, "timeout")
  \/ p = Startup /\ (ENABLED StartupLock \/ ENABLED StartupStore)
  \/ p \in Restarts /\ \/ ENABLED RestartWake(p)
                       \/ ENABLED RestartLock(p)
                       \/ ENABLED RestartStore(p)
  \/ p \in Callers /\ \/ ENABLED ExecuteTaskLock(p)
                      \/ ENABLED ensure_server_alive(p)
                      \/ ENABLED EnsureLaunched(p)
                      \/ ENABLED ViaServerWrite(p)
                      \/ ENABLED ViaServerFlush(p)
                      \/ ENABLED ViaServerReadEnd(p, "Ok(0)")
                      \/ ENABLED ExecuteTaskOk(p)
                      \/ ENABLED ExecuteTaskCrashed(p)
                      \/ ENABLED ExecuteTaskFailed(p)
                      \/ ENABLED ExecuteTaskUnlock(p)
                      \/ ENABLED execute_oneshot(p, <<>>, "finish")
                      \/ ENABLED ExecuteTaskReturn(p)

\* C12: no deadlock on the lock.  The task that has the lock is past its
\* wait for it and not yet past its last step under it, so that no task
\* waits for a lock it has and none ends with it; the holder can always take
\* its next step, whoever waits; and while any task waits for the lock, some
\* task can take a step.
C12_NoDeadlock ==
  /\ \A p \in Procs : lock = p => pc[p] \in Holding
  /\ \A p \in Procs : pc[p] \in Holding => lock = p
  /\ \A p \in Procs : lock = p => CanStep(p)
  /\ (\E p \in Procs : pc[p] = "lock") => \E q \in Procs : CanStep(q)

\* A request in flight with the lock, while a restart task and the startup
\* task wait for it.
C12_Witness ==
  \E c \in Callers, r \in Restarts :
    /\ lock = c
    /\ pc[c] = "read"
    /\ pc[r] = "lock"
    /\ pc[Startup] = "lock"

\* C13: every call returns.  Once execute_task is invoked it comes to its
\* return, with a TaskResult or with an error.
C13_Returns ==
  \A c \in Callers :
    (pc[c] = "lock") ~> (pc[c] = "done" /\ outcome[c].kind \in {"ok", "err"})

\* A call on which every path failed: the exchange on the persistent worker,
\* and then the one-shot run.
C13_Witness ==
  \E c \in Callers :
    /\ pc[c] = "done"
    /\ vres[c].kind = "err"
    /\ outcome[c].kind = "err"

\* C14: ensure_server_alive fails.  The call then leaves its launch for the
\* one-shot run with the launch error in hand, nothing written to a worker,
\* the slot empty and the lock let go; and a call that comes to its return
\* without a result of execute_via_server has written nothing, scheduled no
\* restart and returns what execute_oneshot returned.
C14_EnsureFails ==
  [][\A c \in Callers :
       /\ (pc[c] = "launched" /\ pc'[c] = "oneshot")
            => /\ lres[c].kind = "err"
               /\ wrote'[c] = 0
               /\ ~server'.some
               /\ lock = c /\ lock' = NoProc
       /\ (pc[c] = "launched" /\ lres[c].kind = "err" /\ pc'[c] # "launched")
            => pc'[c] = "oneshot"
       /\ (pc'[c] = "done" /\ vres'[c] = NoResult)
            => /\ wrote'[c] = 0
               /\ sched'[c] = 0
               /\ outcome'[c].from = "oneshot"]_vars

\* A call whose ensure_server_alive failed and which got its TaskResult from
\* the one-shot run.
C14_Witness ==
  \E c \in Callers :
    /\ pc[c] = "done"
    /\ vres[c] = NoResult
    /\ wrote[c] = 0
    /\ outcome[c].kind = "ok"
    /\ outcome[c].from = "oneshot"

\* The lines that decide the readiness wait.
IsReadyLine(l) == IsEvent(l) /\ TypeOf(l) = "t_ready"
IsErrorLine(l) == IsEvent(l) /\ TypeOf(l) = "t_error"
Decides(l) == IsReadyLine(l) \/ IsErrorLine(l)

C16_Ensure ==
  [][\A c \in Callers :
       /\ (pc[c] = "ensure" /\ pc'[c] # "ensure")
            => /\ alive'[c] \in
                    (IF ~server.some THEN {"none"}
                     ELSE IF server.exited THEN {"exited", "error"}
                     ELSE {"running", "error"})
               /\ (pc'[c] = "launch") <=> (alive'[c] \in {"none", "exited", "error"})
               /\ (pc'[c] = "write") <=> (alive'[c] = "running")
               /\ alive'[c] = "running"
                    => server' = server /\ child' = child /\ lres' = lres
               /\ pc'[c] = "launch" => ~server'.some
       /\ (pc[c] = "launched" /\ pc'[c] # "launched")
            => IF lres[c].kind = "ok"
                 THEN pc'[c] = "write" /\ server'.some /\ server' = child[c]
                 ELSE pc'[c] = "oneshot" /\ ~server'.some]_vars

\* A call whose try_wait failed on a stored worker: the worker is out of the
\* slot and the launch is about to begin.
C16_Witness ==
  \E c \in Callers :
    /\ pc[c] = "launch"
    /\ alive[c] = "error"
    /\ lock = c
    /\ ~server.some

\* C17: the fallback waits for nothing.  A call that is to run, or has run,
\* execute_oneshot does not have the lock; and its one-shot run can be taken
\* to its end in any state, whoever has the lock and wherever the restart
\* tasks stand.
C17_NoWait ==
  \A c \in Callers :
    /\ pc[c] \in {"oneshot", "done"} => lock # c
    /\ pc[c] = "oneshot" => ENABLED execute_oneshot(c, <<>>, "finish")

\* A call served by the one-shot run after a failed exchange, while the
\* restart it scheduled is still asleep and the other call has the lock.
C17_Witness ==
  \E c, d \in Callers, r \in Restarts :
    /\ pc[c] = "done"
    /\ vres[c].kind = "err"
    /\ outcome[c].from = "oneshot"
    /\ pc[r] = "sleep"
    /\ lock = d

\* C18: recovery in the background.  Once a failed exchange has emptied the
\* slot and scheduled a restart, the slot comes to hold a running worker
\* again, or the launch of that restart task fails, whether or not a call
\* follows (the states with calls = MaxCalls are among those it starts from);
\* and a restart task begins with its sleep, goes from the sleep only to its
\* wait for the lock, and enters its launch only from there.
C18_Recovers ==
  /\ \A r \in Restarts :
       (pc[r] = "sleep" /\ ~server.some) ~>
         \/ server.some /\ ~server.exited
         \/ pc[r] = "launched" /\ lres[r].kind = "err"
  /\ [][\A r \in Restarts :
          /\ (pc[r] = "unborn" /\ pc'[r] # "unborn") => pc'[r] = "sleep"
          /\ (pc[r] = "sleep" /\ pc'[r] # "sleep") => pc'[r] = "lock"
          /\ (pc[r] # "launch" /\ pc'[r] = "launch") => pc[r] = "lock"]_vars

\* After the last call, with no call under way and the startup task over, a
\* restart task has launched a worker and is about to store it.
C18_Witness ==
  \E r \in Restarts :
    /\ pc[r] = "launched"
    /\ lres[r].kind = "ok"
    /\ calls = MaxCalls
    /\ \A c \in Callers : pc[c] = "idle"
    /\ pc[Startup] = "done"
    /\ ~server.some

\* The events of the lines that are JSON with a non-empty "type", in the
\* order of the lines.
IsTypedJson(l) == FromStrValue(l).ok /\ EventType(FromStrValue(l).val) # ""
TypedEvents(lines) ==
  LET typed == SelectSeq(lines, IsTypedJson) IN
  [i \in 1..Len(typed) |-> FromStrValue(typed[i]).val]

\* C19: what the one-shot run returns.  When execute_oneshot has read the
\* output of its process to the end and waited for it, the result is: the
\* TaskResult of the last line that is one by itself, if there is such a
\* line; otherwise the TaskResult that the text from the first "{" to the
\* last "}" of the lines joined by newlines is, if it is one; otherwise an
\* error.  And the events the run emitted before it returned are those of
\* the lines that are JSON with a non-empty "type", in the order of the
\* lines.
C19_Fallback ==
  (applied.fn = "execute_oneshot" /\ applied.input.end = "finish") =>
    LET lines  == applied.input.lines
        result == applied.output.result
        direct == {i \in DOMAIN lines : FromStrTaskResult(lines[i]).ok}
        last   == CHOOSE i \in direct : \A k \in direct : k <= i
        text   == Join(lines)
        opens  == {i \in DOMAIN text : text[i] = "{"}
        closes == {i \in DOMAIN text : text[i] = "}"}
        first  == CHOOSE i \in opens : \A k \in opens : i <= k
        lastc  == CHOOSE i \in closes : \A k \in closes : k <= i
        spanOk == opens # {} /\ closes # {} /\ first < lastc
        span   == SubSeq(text, first, lastc)
    IN /\ direct # {}
            => result = Ok(FromStrTaskResult(lines[last]).tr)
       /\ (direct = {} /\ spanOk /\ FromStrTaskResult(span).ok)
            => result = Ok(FromStrTaskResult(span).tr)
       /\ (direct = {} /\ ~(spanOk /\ FromStrTaskResult(span).ok))
            => result.kind = "err"
       /\ applied.output.events = TypedEvents(lines)

\* A process that wrote a result over three lines with another result as
\* the line in the middle: the line by itself is returned, not the text from
\* the first "{" to the last "}", which is a TaskResult too.
C19_Witness ==
  /\ applied.fn = "execute_oneshot"
  /\ applied.input = [lines |-> <<LnOpenData, LnTask1, LnBrace>>, end |-> "finish"]
  /\ FromStrTaskResult(Join(applied.input.lines)) = [ok |-> TRUE, tr |-> "R2"]
  /\ applied.output.result = Ok("R1")

\* C20: extract_json_from_output.  For every text the function gives the
\* part of the text from its first "{" through its last "}", both included,
\* and it gives an error exactly when the text has no "{", has no "}", or
\* has its last "}" before its first "{".
C20_Extract ==
  applied.fn = "extract_json_from_output" =>
    LET text   == applied.input.text
        out    == applied.output
        opens  == {i \in DOMAIN text : text[i] = "{"}
        closes == {i \in DOMAIN text : text[i] = "}"}
        first  == CHOOSE i \in opens : \A k \in opens : i <= k
        last   == CHOOSE i \in closes : \A k \in closes : k <= i
        none   == opens = {} \/ closes = {} \/ last < first
    IN /\ ~out.ok <=> none
       /\ out.ok =>
            /\ Len(out.json) = last - first + 1
            /\ \A i \in 1..Len(out.json) : out.json[i] = text[first + i - 1]

\* A text with two objects between other characters: what is extracted
\* runs from the "{" of the first object to the "}" of the second.
C20_Witness ==
  /\ applied.fn = "extract_json_from_output"
  /\ applied.input.text = <<"x", "{", "}", "{", "x", "}", "x">>
  /\ applied.output = [ok |-> TRUE, json |-> <<"{", "}", "{", "x", "}">>]

\* C21: what ends the read loop.  A step that takes a call out of the read
\* loop of execute_via_server is the read of a "result" event, the read of
\* no byte, or a failed read, and the call then has the result of
\* execute_via_server in hand; and the read of an event whose type is
\* neither a control type nor "result", "error" included, leaves the call in
\* the loop with that event, as parsed, emitted after the earlier ones and
\* with no result and no outcome.
C21_LoopEnds ==
  [][\A c \in Callers :
       pc[c] = "read" =>
         /\ pc'[c] # "read" =>
              /\ pc'[c] = "via_ret"
              /\ \/ /\ Len(rlines'[c]) = Len(rlines[c]) + 1
                    /\ SubSeq(rlines'[c], 1, Len(rlines[c])) = rlines[c]
                    /\ IsResultLine(rlines'[c][Len(rlines'[c])])
                 \/ /\ rlines'[c] = Append(rlines[c], <<>>)
                    /\ vres'[c] = Err("PROCESS_CRASHED")
                 \/ /\ rlines'[c] = rlines[c]
                    /\ vres'[c] = Err("read")
         /\ ( /\ Len(rlines'[c]) = Len(rlines[c]) + 1
              /\ IsProgressLine(rlines'[c][Len(rlines'[c])]) )
            => /\ pc'[c] = "read"
               /\ fwd'[c] = Append(fwd[c],
                      FromStrValue(Trim(rlines'[c][Len(rlines'[c])])).val)
               /\ vres'[c] = vres[c]
               /\ outcome'[c] = outcome[c]]_vars

\* A call still in the read loop after an "error" event, which it emitted.
C21_Witness ==
  \E c \in Callers :
    /\ pc[c] = "read"
    /\ Len(rlines[c]) > 0
    /\ LastLine(c) = LnError
    /\ Len(fwd[c]) > 0
    /\ EventType(fwd[c][Len(fwd[c])]) = "t_error"
    /\ vres[c] = NoResult

\* C22: only workers that are ready.  The handle in the slot, and the handle
\* a startup task, a call or a restart task has got from
\* launch_python_server and is about to store, is that of a worker that
\* has emitted "ready"; and a call inside execute_via_server, about to
\* write its command or with the command written, has such a worker in the
\* slot.
C22_OnlyReady ==
  /\ server.some => server.ready
  /\ \A p \in Procs : child[p].some => child[p].ready
  /\ \A c \in Callers :
       InExchange(c) => server.some /\ server.ready

\* A call that has written its command to the worker in the slot before
\* the startup task has launched any: the handle is one that a call or a
\* restart task stored.
C22_Witness ==
  \E c \in Callers :
    /\ pc[c] = "read"
    /\ wrote[c] = 1
    /\ server.some
    /\ server.ready
    /\ pc[Startup] = "lock"

\* C23: no retry.  Within one call the command is written to the persistent
\* worker at most once, and only before the call has an outcome; the call
\* enters the one-shot run only when execute_via_server has not returned a
\* TaskResult and no one-shot run of this call has given an outcome yet;
\* the one-shot run ends the call with its outcome, writes nothing more to
\* the persistent worker, and keeps the events already emitted in front of
\* its own; and a call with its outcome only returns.
C23_NoRetry ==
  [][\A c \in Callers :
          /\ wrote'[c] <= 1
          /\ wrote'[c] > wrote[c]
               => pc[c] = "write" /\ wrote[c] = 0 /\ outcome[c] = NoOutcome
          /\ (pc[c] # "write" /\ pc'[c] = "write")
               => wrote[c] = 0 /\ vres[c] = NoResult /\ outcome[c] = NoOutcome
          /\ (pc[c] # "oneshot" /\ pc'[c] = "oneshot")
               => vres[c].kind # "ok" /\ outcome[c] = NoOutcome
          /\ (pc[c] = "oneshot" /\ pc'[c] # "oneshot")
               => /\ pc'[c] = "done"
                  /\ outcome'[c].from = "oneshot"
                  /\ wrote'[c] = wrote[c]
                  /\ Len(fwd'[c]) >= Len(fwd[c])
                  /\ SubSeq(fwd'[c], 1, Len(fwd[c])) = fwd[c]
          /\ (pc[c] = "done" /\ pc'[c] # "done") => pc'[c] = "idle"]_vars

\* A call whose worker died after one progress event and whose one-shot run
\* emitted another before its result: the caller has events of both runs.
C23_Witness ==
  \E c \in Callers :
    /\ pc[c] = "done"
    /\ wrote[c] = 1
    /\ vres[c] = Err("PROCESS_CRASHED")
    /\ outcome[c] = [kind |-> "ok", val |-> "R1", from |-> "oneshot"]
    /\ olines[c] = <<LnProgress1, LnTask1>>
    /\ Len(fwd[c]) = 2
    /\ \A i \in 1..2 : EventType(fwd[c][i]) = "t_progress"

====
